---- MODULE Spec2Model ----
(***************************************************************************)
(* Model of the dbx package: the nested transaction controller (Transact)  *)
(* driving a bun/database-sql engine through savepoints, and the           *)
(* connection cache (Cache) with its background sweep.                     *)
(***************************************************************************)
EXTENDS Integers, Sequences, FiniteSets, TLC

\* ------------------------------------------------------------------ bounds
\* successful Start calls per episode (from depth 0 back to depth 0)
MaxStarts == 3
\* rows ever inserted
MaxRows == 3

\* handles ever opened (by the provider or by callers)
MaxHandles == 2
\* times the clock is advanced
MaxAdvances == 2

\* nil *bun.Tx
NoTx == 0
\* nil *bun.DB
NoDb == 0
\* the database handed to NewTransactWithDb, which the cache never holds
OwnDb == MaxHandles + 1
\* maxInactiveDuration and the ticker period of Cleanup, in minutes
maxInactiveDuration == 30
TickerPeriod == 1

VARIABLES
    \* Transact fields
    db, tx, stack, nested,
    \* the engine behind Transact.db: the open transaction with its savepoint
    \* stack, and the rows that are durably committed
    levels, committed,
    \* rows inserted so far
    nextRow,
    \* the caller's bookkeeping of one episode (history, not program state)
    hist,
    \* call stack of the running Transaction helpers
    frames,
    \* the last call and what it returned (history)
    ev,
    \* Cache fields: the handle map, the timestamp table, the quit channel
    \* and the holder of mu
    cache, lastAccessed, quit, mu,
    \* the clock, the number of times it was advanced, and the tick the
    \* ticker holds for the sweep
    now, advances, tickPending,
    \* the Cleanup goroutine: "running" or "stopped"
    sweep,
    \* every database handle the provider or a caller opened for the cache
    handles,
    \* per caller: where it is in GetOrOpen, and the locals of that call
    pc, call,
    \* per name, since the name was last evicted (history): the successful
    \* provider opens and the handles GetOrOpen returned
    opensOk, got,
    \* the Cache method call that returned in the last step, with what it
    \* returned (history); "none" after any other step
    cev

txvars == <<db, tx, stack, nested, levels, committed, nextRow, hist, frames,
            ev>>

cachevars == <<cache, lastAccessed, quit, mu, now, advances, tickPending,
               sweep, handles, pc, call, opensOk, got, cev>>

vars == <<db, tx, stack, nested, levels, committed, nextRow, hist, frames, ev,
          cache, lastAccessed, quit, mu, now, advances, tickPending,
          sweep, handles, pc, call, opensOk, got, cev>>

Callers == {"p1", "p2"}

Names == {"a", "b"}

\* no goroutine holds mu
Free == "free"

\* ------------------------------------------------------------ small helpers
Range(s) == {s[i] : i \in 1..Len(s)}

Front(s) == SubSeq(s, 1, Len(s) - 1)

Rows == 1..MaxRows

\* the controller and the engine it talks to, as one value
World == [tx |-> tx, stack |-> stack, nested |-> nested,
          levels |-> levels, committed |-> committed]

\* ------------------------------------------------------------------ engine
\* bun.DB / bun.Tx as used by Transact: db.BeginTx opens the transaction,
\* tx.BeginTx opens a savepoint-backed Tx inside it, Commit on a savepoint Tx
\* releases the savepoint, Rollback on it rolls back to the savepoint.

LevelIds(w) == {w.levels[i].id : i \in 1..Len(w.levels)}

\* a handle value that names no Tx the controller or the engine still holds
FreshId(w) ==
    CHOOSE h \in 1..(MaxStarts + 2) :
        /\ h \notin LevelIds(w) \cup Range(w.stack) \cup {w.tx}
        /\ \A g \in 1..(h - 1) : g \in LevelIds(w) \cup Range(w.stack) \cup {w.tx}

\* position of handle h in the savepoint stack, 0 when h is finished
HandlePos(w, h) ==
    IF \E i \in 1..Len(w.levels) : w.levels[i].id = h
    THEN CHOOSE i \in 1..Len(w.levels) : w.levels[i].id = h
    ELSE 0

RowsFrom(w, p) == UNION {w.levels[i].rows : i \in p..Len(w.levels)}

\* t.db.BeginTx(ctx, opt): ok is the engine's (or the context's) verdict
DbBeginTx(w, ok) ==
    IF ok /\ w.levels = <<>>
    THEN [w |-> [w EXCEPT !.levels = <<[id |-> FreshId(w), rows |-> {}]>>],
          h |-> FreshId(w), err |-> <<>>]
    ELSE [w |-> w, h |-> NoTx, err |-> <<"begin">>]

\* t.tx.BeginTx(ctx, opt): SAVEPOINT inside the transaction of handle h
TxBeginTx(w, h, ok) ==
    IF ok /\ HandlePos(w, h) > 0
    THEN [w |-> [w EXCEPT !.levels = Append(@, [id |-> FreshId(w), rows |-> {}])],
          h |-> FreshId(w), err |-> <<>>]
    ELSE [w |-> w, h |-> NoTx, err |-> <<"savepoint">>]

\* h.Commit(): COMMIT for the root Tx, RELEASE SAVEPOINT for a savepoint Tx.
\* A failed root commit persists nothing; kill says whether it also finished
\* the Tx (database/sql marks it done) or left it open.
TxCommit(w, h, ok, kill) ==
    LET p == HandlePos(w, h) IN
    IF p = 0 THEN [w |-> w, err |-> <<"tx done">>]
    ELSE IF p = 1 THEN
        IF ok THEN [w |-> [w EXCEPT !.committed = @ \cup RowsFrom(w, 1),
                                    !.levels = <<>>],
                    err |-> <<>>]
        ELSE [w |-> IF kill THEN [w EXCEPT !.levels = <<>>] ELSE w,
              err |-> <<"commit">>]
    ELSE
        IF ok THEN [w |-> [w EXCEPT !.levels =
                        Append(SubSeq(@, 1, p - 2),
                               [id |-> @[p - 1].id,
                                rows |-> @[p - 1].rows \cup RowsFrom(w, p)])],
                    err |-> <<>>]
        ELSE [w |-> w, err |-> <<"release">>]

\* h.Rollback(): ROLLBACK for the root Tx (the Tx is finished whatever the
\* engine answers), ROLLBACK TO SAVEPOINT for a savepoint Tx.
TxRollback(w, h, ok) ==
    LET p == HandlePos(w, h) IN
    IF p = 0 THEN [w |-> w, err |-> <<"tx done">>]
    ELSE IF p = 1 THEN
        [w |-> [w EXCEPT !.levels = <<>>],
         err |-> IF ok THEN <<>> ELSE <<"rollback">>]
    ELSE
        IF ok THEN [w |-> [w EXCEPT !.levels = SubSeq(@, 1, p - 1)], err |-> <<>>]
        ELSE [w |-> w, err |-> <<"rollback to">>]

\* an INSERT issued on the queryable q (the root handle when q = NoTx): it
\* lands in the innermost open savepoint of the connection, or is committed
\* at once when issued on the root handle
Exec(w, q, row) ==
    IF q = NoTx
    THEN [w |-> [w EXCEPT !.committed = @ \cup {row}], err |-> <<>>]
    ELSE IF HandlePos(w, q) = 0 THEN [w |-> w, err |-> <<"tx done">>]
    ELSE [w |-> [w EXCEPT !.levels[Len(w.levels)].rows = @ \cup {row}],
          err |-> <<>>]

\* -------------------------------------------------------------- Transact
\* Every method takes the world before the call and the engine's verdicts,
\* and yields the world after it and the error it returns (<<>> is nil; an
\* error value is the sequence of the errors it wraps or joins).

\* Db with its test inverted: the root handle while a transaction is active
DbInverted(w) == IF w.tx # NoTx THEN NoTx ELSE w.tx

Db(w) == IF w.tx = NoTx THEN NoTx ELSE w.tx

\* Start that begins every level on the root handle
StartOnRoot(w, ok) ==
    LET b == DbBeginTx(w, ok) IN
    IF b.err # <<>>
    THEN [w |-> w, err |-> b.err, eng |-> <<[op |-> "db.BeginTx", h |-> NoTx]>>]
    ELSE IF w.tx # NoTx
    THEN [w |-> [b.w EXCEPT !.stack = Append(w.stack, w.tx),
                            !.tx = b.h,
                            !.nested = w.nested + 1],
          err |-> <<>>, eng |-> <<[op |-> "db.BeginTx", h |-> NoTx]>>]
    ELSE [w |-> [b.w EXCEPT !.tx = b.h, !.nested = 1, !.stack = <<>>],
          err |-> <<>>, eng |-> <<[op |-> "db.BeginTx", h |-> NoTx]>>]

\* Start that counts the level before it knows the savepoint exists
StartCountsFirst(w, ok) ==
    IF w.tx # NoTx THEN
        LET sp == TxBeginTx(w, w.tx, ok) IN
        IF sp.err # <<>>
        THEN [w |-> [w EXCEPT !.nested = w.nested + 1], err |-> sp.err,
              eng |-> <<[op |-> "tx.BeginTx", h |-> w.tx]>>]
        ELSE [w |-> [sp.w EXCEPT !.stack = Append(w.stack, w.tx),
                                 !.tx = sp.h,
                                 !.nested = w.nested + 1],
              err |-> <<>>, eng |-> <<[op |-> "tx.BeginTx", h |-> w.tx]>>]
    ELSE
        LET b == DbBeginTx(w, ok) IN
        IF b.err # <<>>
        THEN [w |-> w, err |-> b.err, eng |-> <<[op |-> "db.BeginTx", h |-> NoTx]>>]
        ELSE [w |-> [b.w EXCEPT !.tx = b.h, !.nested = 1, !.stack = <<>>],
              err |-> <<>>, eng |-> <<[op |-> "db.BeginTx", h |-> NoTx]>>]

\* Start that opens the savepoint but does not count the level
StartNoCount(w, ok) ==
    IF w.tx # NoTx THEN
        LET sp == TxBeginTx(w, w.tx, ok) IN
        IF sp.err # <<>>
        THEN [w |-> w, err |-> sp.err, eng |-> <<[op |-> "tx.BeginTx", h |-> w.tx]>>]
        ELSE [w |-> [sp.w EXCEPT !.stack = Append(w.stack, w.tx), !.tx = sp.h],
              err |-> <<>>, eng |-> <<[op |-> "tx.BeginTx", h |-> w.tx]>>]
    ELSE
        LET b == DbBeginTx(w, ok) IN
        IF b.err # <<>>
        THEN [w |-> w, err |-> b.err, eng |-> <<[op |-> "db.BeginTx", h |-> NoTx]>>]
        ELSE [w |-> [b.w EXCEPT !.tx = b.h, !.nested = 1, !.stack = <<>>],
              err |-> <<>>, eng |-> <<[op |-> "db.BeginTx", h |-> NoTx]>>]

Start(w, ok) ==
    IF w.tx # NoTx THEN
        LET sp == TxBeginTx(w, w.tx, ok) IN
        IF sp.err # <<>>
        THEN [w |-> w, err |-> sp.err, eng |-> <<[op |-> "tx.BeginTx", h |-> w.tx]>>]
        ELSE [w |-> [sp.w EXCEPT !.stack = Append(w.stack, w.tx),
                                 !.tx = sp.h,
                                 !.nested = w.nested + 1],
              err |-> <<>>, eng |-> <<[op |-> "tx.BeginTx", h |-> w.tx]>>]
    ELSE
        LET b == DbBeginTx(w, ok) IN
        IF b.err # <<>>
        THEN [w |-> w, err |-> b.err, eng |-> <<[op |-> "db.BeginTx", h |-> NoTx]>>]
        ELSE [w |-> [b.w EXCEPT !.tx = b.h, !.nested = 1, !.stack = <<>>],
              err |-> <<>>, eng |-> <<[op |-> "db.BeginTx", h |-> NoTx]>>]

\* a pop that restores the parent but leaves it on the stack
PopParentKeepsStack(w) ==
    IF Len(w.stack) - 1 >= 0
    THEN [w EXCEPT !.tx = w.stack[Len(w.stack)], !.nested = w.nested - 1]
    ELSE [w EXCEPT !.tx = NoTx, !.nested = w.nested - 1]

\* the pop shared by Commit and Rollback at nested > 1
PopParent(w) ==
    IF Len(w.stack) - 1 >= 0
    THEN [w EXCEPT !.tx = w.stack[Len(w.stack)],
                   !.stack = Front(w.stack),
                   !.nested = w.nested - 1]
    ELSE [w EXCEPT !.tx = NoTx, !.nested = w.nested - 1]

\* Commit that resets the controller at depth 1 before it looks at the error
CommitResetsOnError(w, ok, kill) ==
    IF w.tx = NoTx THEN [w |-> w, err |-> <<"no tx active">>, eng |-> <<>>]
    ELSE IF w.nested > 1 THEN
        LET c == TxCommit(w, w.tx, ok, kill) IN
        IF c.err # <<>>
        THEN [w |-> c.w, err |-> c.err, eng |-> <<[op |-> "tx.Commit", h |-> w.tx]>>]
        ELSE [w |-> PopParent(c.w), err |-> <<>>,
              eng |-> <<[op |-> "tx.Commit", h |-> w.tx]>>]
    ELSE
        LET c == TxCommit(w, w.tx, ok, kill) IN
        [w |-> [c.w EXCEPT !.tx = NoTx, !.stack = <<>>, !.nested = w.nested - 1],
         err |-> c.err, eng |-> <<[op |-> "tx.Commit", h |-> w.tx]>>]

\* Commit that rolls the savepoint back at nested > 1
CommitInnerRollsBack(w, ok, kill) ==
    IF w.tx = NoTx THEN [w |-> w, err |-> <<"no tx active">>, eng |-> <<>>]
    ELSE IF w.nested > 1 THEN
        LET c == TxRollback(w, w.tx, ok) IN
        IF c.err # <<>>
        THEN [w |-> c.w, err |-> c.err, eng |-> <<[op |-> "tx.Rollback", h |-> w.tx]>>]
        ELSE [w |-> PopParent(c.w), err |-> <<>>,
              eng |-> <<[op |-> "tx.Rollback", h |-> w.tx]>>]
    ELSE
        LET c == TxCommit(w, w.tx, ok, kill) IN
        IF c.err # <<>>
        THEN [w |-> c.w, err |-> c.err, eng |-> <<[op |-> "tx.Commit", h |-> w.tx]>>]
        ELSE [w |-> [c.w EXCEPT !.tx = NoTx, !.stack = <<>>,
                                !.nested = w.nested - 1],
              err |-> <<>>, eng |-> <<[op |-> "tx.Commit", h |-> w.tx]>>]

\* Commit that takes an idle controller for a committed one
CommitIdleIsNil(w, ok, kill) ==
    IF w.tx = NoTx THEN [w |-> w, err |-> <<>>, eng |-> <<>>]
    ELSE IF w.nested > 1 THEN
        LET c == TxCommit(w, w.tx, ok, kill) IN
        IF c.err # <<>>
        THEN [w |-> c.w, err |-> c.err, eng |-> <<[op |-> "tx.Commit", h |-> w.tx]>>]
        ELSE [w |-> PopParent(c.w), err |-> <<>>,
              eng |-> <<[op |-> "tx.Commit", h |-> w.tx]>>]
    ELSE
        LET c == TxCommit(w, w.tx, ok, kill) IN
        IF c.err # <<>>
        THEN [w |-> c.w, err |-> c.err, eng |-> <<[op |-> "tx.Commit", h |-> w.tx]>>]
        ELSE [w |-> [c.w EXCEPT !.tx = NoTx, !.stack = <<>>,
                                !.nested = w.nested - 1],
              err |-> <<>>, eng |-> <<[op |-> "tx.Commit", h |-> w.tx]>>]

Commit(w, ok, kill) ==
    IF w.tx = NoTx THEN [w |-> w, err |-> <<"no tx active">>, eng |-> <<>>]
    ELSE IF w.nested > 1 THEN
        LET c == TxCommit(w, w.tx, ok, kill) IN
        IF c.err # <<>>
        THEN [w |-> c.w, err |-> c.err, eng |-> <<[op |-> "tx.Commit", h |-> w.tx]>>]
        ELSE [w |-> PopParent(c.w), err |-> <<>>,
              eng |-> <<[op |-> "tx.Commit", h |-> w.tx]>>]
    ELSE
        LET c == TxCommit(w, w.tx, ok, kill) IN
        IF c.err # <<>>
        THEN [w |-> c.w, err |-> c.err, eng |-> <<[op |-> "tx.Commit", h |-> w.tx]>>]
        ELSE [w |-> [c.w EXCEPT !.tx = NoTx, !.stack = <<>>,
                                !.nested = w.nested - 1],
              err |-> <<>>, eng |-> <<[op |-> "tx.Commit", h |-> w.tx]>>]

\* Rollback that returns the engine's error at depth 1 before it resets
RollbackKeepsOnError(w, ok) ==
    IF w.tx = NoTx THEN [w |-> w, err |-> <<"no tx active">>, eng |-> <<>>]
    ELSE IF w.nested > 1 THEN
        LET r == TxRollback(w, w.tx, ok) IN
        IF r.err # <<>>
        THEN [w |-> r.w, err |-> r.err, eng |-> <<[op |-> "tx.Rollback", h |-> w.tx]>>]
        ELSE [w |-> PopParent(r.w), err |-> <<>>,
              eng |-> <<[op |-> "tx.Rollback", h |-> w.tx]>>]
    ELSE
        LET r == TxRollback(w, w.tx, ok) IN
        IF r.err # <<>>
        THEN [w |-> r.w, err |-> r.err, eng |-> <<[op |-> "tx.Rollback", h |-> w.tx]>>]
        ELSE [w |-> [r.w EXCEPT !.nested = w.nested - 1, !.tx = NoTx, !.stack = <<>>],
              err |-> <<>>, eng |-> <<[op |-> "tx.Rollback", h |-> w.tx]>>]

\* Rollback that only counts down at nested > 1, without a savepoint rollback
RollbackCountsOnly(w, ok) ==
    IF w.tx = NoTx THEN [w |-> w, err |-> <<"no tx active">>, eng |-> <<>>]
    ELSE IF w.nested > 1 THEN
        [w |-> PopParent(w), err |-> <<>>, eng |-> <<>>]
    ELSE
        LET r == TxRollback(w, w.tx, ok) IN
        [w |-> [r.w EXCEPT !.nested = w.nested - 1, !.tx = NoTx, !.stack = <<>>],
         err |-> r.err, eng |-> <<[op |-> "tx.Rollback", h |-> w.tx]>>]

\* Rollback that commits the outermost transaction
RollbackOuterCommits(w, ok) ==
    IF w.tx = NoTx THEN [w |-> w, err |-> <<"no tx active">>, eng |-> <<>>]
    ELSE IF w.nested > 1 THEN
        LET r == TxRollback(w, w.tx, ok) IN
        IF r.err # <<>>
        THEN [w |-> r.w, err |-> r.err, eng |-> <<[op |-> "tx.Rollback", h |-> w.tx]>>]
        ELSE [w |-> PopParent(r.w), err |-> <<>>,
              eng |-> <<[op |-> "tx.Rollback", h |-> w.tx]>>]
    ELSE
        LET r == TxCommit(w, w.tx, ok, TRUE) IN
        [w |-> [r.w EXCEPT !.nested = w.nested - 1, !.tx = NoTx, !.stack = <<>>],
         err |-> r.err, eng |-> <<[op |-> "tx.Commit", h |-> w.tx]>>]

Rollback(w, ok) ==
    IF w.tx = NoTx THEN [w |-> w, err |-> <<"no tx active">>, eng |-> <<>>]
    ELSE IF w.nested > 1 THEN
        LET r == TxRollback(w, w.tx, ok) IN
        IF r.err # <<>>
        THEN [w |-> r.w, err |-> r.err, eng |-> <<[op |-> "tx.Rollback", h |-> w.tx]>>]
        ELSE [w |-> PopParent(r.w), err |-> <<>>,
              eng |-> <<[op |-> "tx.Rollback", h |-> w.tx]>>]
    ELSE
        LET r == TxRollback(w, w.tx, ok) IN
        [w |-> [r.w EXCEPT !.nested = w.nested - 1, !.tx = NoTx, !.stack = <<>>],
         err |-> r.err, eng |-> <<[op |-> "tx.Rollback", h |-> w.tx]>>]

\* one call the helper made: the depth before and after it, its error, the
\* engine calls it issued and the Tx the engine created for it (NoTx: none)
Call(op, w1, r) ==
    [op |-> op, before |-> w1.nested, after |-> r.w.nested, err |-> r.err,
     eng |-> r.eng,
     made |-> IF Len(r.w.levels) > Len(w1.levels)
              THEN r.w.levels[Len(r.w.levels)].id ELSE NoTx]

\* the re-raise panic(r) of the deferred function, in the order of the calls
Repanic(w) ==
    [op |-> "panic", before |-> w.nested, after |-> w.nested, err |-> <<>>,
     eng |-> <<>>, made |-> NoTx]

\* a deferred function that rolls back but drops the Rollback error
DeferredDropsRollbackError(w, done, r, err, okR) ==
    LET rb == Rollback(w, okR)
        rolled == ~done \/ r
        w2 == IF rolled THEN rb.w ELSE w
    IN  [w |-> w2,
         err |-> err,
         calls |-> (IF rolled THEN <<Call("Rollback", w, rb)>> ELSE <<>>)
                   \o (IF r THEN <<Repanic(w2)>> ELSE <<>>),
         panic |-> r]

\* a deferred function that rolls back only when nothing panicked
DeferredSkipsPanic(w, done, r, err, okR) ==
    LET rb == Rollback(w, okR)
        rolled == ~done /\ ~r
        w2 == IF rolled THEN rb.w ELSE w
    IN  [w |-> w2,
         err |-> IF rolled /\ rb.err # <<>> THEN err \o rb.err ELSE err,
         calls |-> (IF rolled THEN <<Call("Rollback", w, rb)>> ELSE <<>>)
                   \o (IF r THEN <<Repanic(w2)>> ELSE <<>>),
         panic |-> r]

\* the deferred function of Transaction: done and r are the helper's locals
\* when it runs (r: recover() returned a panic value), err the error being
\* returned
Deferred(w, done, r, err, okR) ==
    LET rb == Rollback(w, okR)
        rolled == ~done \/ r
        w2 == IF rolled THEN rb.w ELSE w
    IN  [w |-> w2,
         err |-> IF rolled /\ rb.err # <<>> THEN err \o rb.err ELSE err,
         calls |-> (IF rolled THEN <<Call("Rollback", w, rb)>> ELSE <<>>)
                   \o (IF r THEN <<Repanic(w2)>> ELSE <<>>),
         panic |-> r]

\* Transaction after its Start succeeded and fn ended with fnOut: "nil",
\* "err" (fn returned an error) or "panic"
TransactionTail(w, fnOut, okC, killC, okR) ==
    IF fnOut = "panic" THEN Deferred(w, FALSE, TRUE, <<>>, okR)
    ELSE IF fnOut = "err" THEN Deferred(w, FALSE, FALSE, <<"fn">>, okR)
    ELSE
        LET c == Commit(w, okC, killC) IN
        IF c.err # <<>> THEN
            LET d == Deferred(c.w, FALSE, FALSE, c.err, okR) IN
            [d EXCEPT !.calls = <<Call("Commit", w, c)>> \o @]
        ELSE
            LET d == Deferred(c.w, TRUE, FALSE, <<>>, okR) IN
            [d EXCEPT !.calls = <<Call("Commit", w, c)>> \o @]

\* ------------------------------------------------- the caller's bookkeeping
\* What a caller who only sees the calls and their results expects: the rows
\* written in each open level (exp), all rows written since the outermost
\* Start (allW), whether an inner level was rolled back (innerRb), the
\* committed rows at the outermost Start (base), and the counts of successful
\* Starts (starts), of successful Commit/Rollback calls (ends) and of
\* level-ending calls (closes) in the episode, and the Tx the engine created
\* for each open level (qs).
HistInit ==
    [exp |-> <<>>, allW |-> {}, innerRb |-> FALSE, base |-> {},
     starts |-> 0, ends |-> 0, closes |-> 0, qs |-> <<>>]

MergeTop(e) ==
    IF Len(e) >= 2
    THEN Append(SubSeq(e, 1, Len(e) - 2), e[Len(e) - 1] \cup e[Len(e)])
    ELSE <<>>

DropTop(e) == IF Len(e) >= 2 THEN Front(e) ELSE <<>>

HistAfter(h, c, pre) ==
    LET ok == c.err = <<>> IN
    IF c.op = "Start" THEN
        IF ~ok THEN h
        ELSE IF h.exp = <<>>
        THEN [exp |-> <<{}>>, allW |-> {}, innerRb |-> FALSE, base |-> pre,
              starts |-> 1, ends |-> 0, closes |-> 0, qs |-> <<c.made>>]
        ELSE [h EXCEPT !.exp = Append(@, {}), !.starts = @ + 1,
                       !.qs = Append(@, c.made)]
    ELSE IF c.op = "Commit" THEN
        IF ~ok THEN h
        ELSE [h EXCEPT !.exp = MergeTop(@), !.ends = @ + 1, !.closes = @ + 1,
                       !.qs = Front(@)]
    ELSE IF c.op = "Rollback" THEN
        IF ok THEN [h EXCEPT !.exp = DropTop(@),
                             !.innerRb = @ \/ Len(h.exp) >= 2,
                             !.ends = @ + 1, !.closes = @ + 1,
                             !.qs = Front(@)]
        ELSE IF Len(h.exp) = 1
        THEN [h EXCEPT !.exp = <<>>, !.closes = @ + 1, !.qs = <<>>]
        ELSE h
    ELSE h

RECURSIVE HistAll(_, _, _)
HistAll(h, calls, pre) ==
    IF calls = <<>> THEN h
    ELSE HistAll(HistAfter(h, Head(calls), pre), Tail(calls), pre)

HistWrite(h, row) ==
    IF h.exp = <<>> THEN h
    ELSE [h EXCEPT !.exp[Len(h.exp)] = @ \cup {row}, !.allW = @ \cup {row}]

\* ----------------------------------------------------------------- actions
SetWorld(w) ==
    /\ tx' = w.tx
    /\ stack' = w.stack
    /\ nested' = w.nested
    /\ levels' = w.levels
    /\ committed' = w.committed

\* the record of the call just made: before, pre, h and q are the depth, the
\* committed rows, the bookkeeping and Db() when it was made; entry is the
\* depth at which the Transaction that returns was entered
Event(op, fn, calls, err, panicked, entry) ==
    [op |-> op, fn |-> fn, calls |-> calls, err |-> err, panicked |-> panicked,
     entry |-> entry, before |-> nested, pre |-> committed, h |-> hist,
     q |-> Db(World)]

CanStart == hist.exp = <<>> \/ hist.starts < MaxStarts

\* fn of the innermost running Transaction is unwinding a panic
Panicking == frames # <<>> /\ frames[Len(frames)].panicking

\* t.db is usable: no one has closed it
DbOpen == db = OwnDb \/ handles[db].open

\* what the engine may answer to the BeginTx of Start: db.BeginTx on a closed
\* database fails, tx.BeginTx runs on the connection the transaction holds
BeginVerdicts == IF tx = NoTx /\ ~DbOpen THEN {FALSE} ELSE BOOLEAN

TxInit ==
    /\ db = OwnDb
    /\ tx = NoTx
    /\ stack = <<>>
    /\ nested = 0
    /\ levels = <<>>
    /\ committed = {}
    /\ nextRow = 1
    /\ hist = HistInit
    /\ frames = <<>>
    /\ ev = [op |-> "new", fn |-> "none", calls |-> <<>>, err |-> <<>>,
             panicked |-> FALSE, entry |-> 0, before |-> 0, pre |-> {},
             h |-> HistInit, q |-> NoTx]

DoStart ==
    /\ frames = <<>>
    /\ CanStart
    /\ \E ok \in BeginVerdicts :
        LET r == Start(World, ok)
            c == Call("Start", World, r)
        IN  /\ SetWorld(r.w)
            /\ hist' = HistAfter(hist, c, committed)
            /\ ev' = Event("Start", "none", <<c>>, r.err, FALSE, nested)
    /\ UNCHANGED <<db, nextRow, frames>>
    /\ UNCHANGED cachevars

DoCommit ==
    /\ frames = <<>>
    /\ \E ok, kill \in BOOLEAN :
        LET r == Commit(World, ok, kill)
            c == Call("Commit", World, r)
        IN  /\ SetWorld(r.w)
            /\ hist' = HistAfter(hist, c, committed)
            /\ ev' = Event("Commit", "none", <<c>>, r.err, FALSE, nested)
    /\ UNCHANGED <<db, nextRow, frames>>
    /\ UNCHANGED cachevars

DoRollback ==
    /\ frames = <<>>
    /\ \E ok \in BOOLEAN :
        LET r == Rollback(World, ok)
            c == Call("Rollback", World, r)
        IN  /\ SetWorld(r.w)
            /\ hist' = HistAfter(hist, c, committed)
            /\ ev' = Event("Rollback", "none", <<c>>, r.err, FALSE, nested)
    /\ UNCHANGED <<db, nextRow, frames>>
    /\ UNCHANGED cachevars

\* insertItem(t, tx.Db(), ...): the caller, or fn, inserts a row through Db()
DoWrite ==
    /\ ~Panicking
    /\ nextRow <= MaxRows
    /\ LET r == Exec(World, Db(World), nextRow) IN
        /\ SetWorld(r.w)
        /\ hist' = IF r.err = <<>> THEN HistWrite(hist, nextRow) ELSE hist
        /\ nextRow' = IF r.err = <<>> THEN nextRow + 1 ELSE nextRow
        /\ ev' = Event("Write", "none", <<>>, r.err, FALSE, nested)
    /\ UNCHANGED <<db, frames>>
    /\ UNCHANGED cachevars

\* Transaction up to the call of fn: its Start, and the return of the Start
\* error when it fails
TransactionCall ==
    /\ ~Panicking
    /\ CanStart
    /\ \E ok \in BeginVerdicts :
        LET r == Start(World, ok)
            c == Call("Start", World, r)
        IN  /\ SetWorld(r.w)
            /\ hist' = HistAfter(hist, c, committed)
            /\ IF r.err # <<>>
               THEN /\ frames' = frames
                    /\ ev' = Event("Transaction", "none", <<c>>, r.err, FALSE, nested)
               ELSE /\ frames' = Append(frames, [d |-> nested, panicking |-> FALSE])
                    /\ ev' = Event("fn", "none", <<c>>, <<>>, FALSE, nested)
    /\ UNCHANGED <<db, nextRow>>
    /\ UNCHANGED cachevars

\* fn ends (returns nil, returns an error or panics) and Transaction runs to
\* its exit; a panic goes on unwinding the fn of the enclosing Transaction
TransactionReturn ==
    /\ frames # <<>>
    /\ \E fnOut \in {"nil", "err", "panic"}, okC, killC, okR \in BOOLEAN :
        /\ Panicking => fnOut = "panic"
        /\ LET t == TransactionTail(World, fnOut, okC, killC, okR)
               up == Front(frames)
           IN  /\ SetWorld(t.w)
               /\ hist' = HistAll(hist, t.calls, committed)
               /\ frames' = IF t.panic /\ up # <<>>
                            THEN [up EXCEPT ![Len(up)].panicking = TRUE]
                            ELSE up
               /\ ev' = Event("Transaction", fnOut, t.calls, t.err, t.panic,
                              frames[Len(frames)].d)
    /\ UNCHANGED <<db, nextRow>>
    /\ UNCHANGED cachevars

TxNext ==
    \/ DoStart
    \/ DoCommit
    \/ DoRollback
    \/ DoWrite
    \/ TransactionCall
    \/ TransactionReturn

\* ------------------------------------------------------------------- Cache
\* m with key k set to v, and m without the keys in ks (Go map insert/delete)
MapSet(m, k, v) == [x \in DOMAIN m \cup {k} |-> IF x = k THEN v ELSE m[x]]

MapDelete(m, ks) == [x \in DOMAIN m \ ks |-> m[x]]

HandleIds == DOMAIN handles

\* a new open handle; for: the names the cache opened it for or holds it
\* under; by: who opened it ("OpenDB", or "caller" for a handle passed to
\* Set) and name: the name it was first opened or stored for
NewHandle(name, by) ==
    [open |-> TRUE, for |-> {name}, by |-> by, name |-> name]

\* OpenDB(name): out is "ok", "early" (DbFilePath or sql.Open fails, no handle
\* exists) or "late" (Ping or a PRAGMA fails after sql.Open returned a
\* handle, which OpenDB returns without closing)
OpenDB(name, out) ==
    LET h == Cardinality(HandleIds) + 1 IN
    IF out = "early" THEN [db |-> NoDb, err |-> <<"open">>, handles |-> handles]
    ELSE IF out = "late"
    THEN [db |-> NoDb, err |-> <<"open">>,
          handles |-> MapSet(handles, h, NewHandle(name, "OpenDB"))]
    ELSE [db |-> h, err |-> <<>>,
          handles |-> MapSet(handles, h, NewHandle(name, "OpenDB"))]

\* db.Close() on the handles hs: closed whatever Close returns
CloseAll(hm, hs) ==
    [h \in DOMAIN hm |-> IF h \in hs THEN [hm[h] EXCEPT !.open = FALSE] ELSE hm[h]]

Idle(p) == pc[p] = "idle"

\* the locals of a GetOrOpen call: the name and the results db and err; and
\* (history) raced: when the call was made the name was absent from the
\* cache and another caller was inside GetOrOpen for it
NoCall == [name |-> "a", db |-> NoDb, err |-> <<>>, raced |-> FALSE]

\* what a Cache method returned: db and err, and ok for Set's boolean
CacheEv(op, n, d, err, ok) ==
    [op |-> op, name |-> n, db |-> d, err |-> err, ok |-> ok]

NoEv == CacheEv("none", "a", NoDb, <<>>, FALSE)

CacheInit ==
    /\ cev = NoEv
    /\ cache = <<>>
    /\ lastAccessed = <<>>
    /\ quit = "open"
    /\ mu = Free
    /\ now = 0
    /\ advances = 0
    /\ tickPending = FALSE
    /\ sweep = "running"
    /\ handles = <<>>
    /\ pc = [p \in Callers |-> "idle"]
    /\ call = [p \in Callers |-> NoCall]
    /\ opensOk = [n \in Names |-> 0]
    /\ got = [n \in Names |-> {}]

\* c.mu.Lock() and c.mu.Unlock()
Lock(p) == mu = Free /\ mu' = p

Unlock(p) == mu' = Free

\* Has that refreshes the timestamp of the entry it finds, as Get does
HasTouches(p, n) ==
    /\ Idle(p)
    /\ mu = Free
    /\ lastAccessed' = IF n \in DOMAIN cache
                       THEN MapSet(lastAccessed, n, now) ELSE lastAccessed
    /\ cev' = CacheEv("Has", n, IF n \in DOMAIN cache THEN cache[n] ELSE NoDb,
                     <<>>, FALSE)
    /\ UNCHANGED <<cache, quit, mu, now, advances, tickPending, sweep,
                   handles, pc, call, opensOk, got>>
    /\ UNCHANGED txvars

Has(p, n) ==
    /\ Idle(p)
    /\ mu = Free
    /\ cev' = CacheEv("Has", n, IF n \in DOMAIN cache THEN cache[n] ELSE NoDb,
                     <<>>, FALSE)
    /\ UNCHANGED <<cache, lastAccessed, quit, mu, now, advances, tickPending, sweep,
                   handles, pc, call, opensOk, got>>
    /\ UNCHANGED txvars

Get(p, n) ==
    /\ Idle(p)
    /\ mu = Free
    /\ n \in DOMAIN cache
    /\ lastAccessed' = MapSet(lastAccessed, n, now)
    /\ UNCHANGED <<cache, quit, mu, now, advances, tickPending, sweep,
                   handles, pc, call, opensOk, got>>
    /\ cev' = CacheEv("Get", n, cache[n], <<>>, FALSE)
    /\ UNCHANGED txvars

\* Get that records the access before it looks the name up
GetMissTouches(p, n) ==
    /\ Idle(p)
    /\ mu = Free
    /\ n \notin DOMAIN cache
    /\ lastAccessed' = MapSet(lastAccessed, n, now)
    /\ cev' = CacheEv("Get", n, NoDb, <<"not found">>, FALSE)
    /\ UNCHANGED <<cache, quit, mu, now, advances, tickPending, sweep,
                   handles, pc, call, opensOk, got>>
    /\ UNCHANGED txvars

GetMiss(p, n) ==
    /\ Idle(p)
    /\ mu = Free
    /\ n \notin DOMAIN cache
    /\ cev' = CacheEv("Get", n, NoDb, <<"not found">>, FALSE)
    /\ UNCHANGED <<cache, lastAccessed, quit, mu, now, advances, tickPending, sweep,
                   handles, pc, call, opensOk, got>>
    /\ UNCHANGED txvars

\* the callers that are inside GetOrOpen(n)
InGetOrOpen(n) == {q \in Callers : pc[q] # "idle" /\ call[q].name = n}

\* GetOrOpen is called: the caller is about to take the lock
GetOrOpenCall(p, n) ==
    /\ Idle(p)
    /\ pc' = [pc EXCEPT ![p] = "lock"]
    /\ call' = [call EXCEPT ![p] =
                  [NoCall EXCEPT !.name = n,
                                 !.raced = n \notin DOMAIN cache /\ InGetOrOpen(n) # {}]]
    /\ UNCHANGED <<cache, lastAccessed, quit, mu, now, advances, tickPending,
                   sweep, handles, opensOk, got>>
    /\ cev' = NoEv
    /\ UNCHANGED txvars

\* GetOrOpen entered without waiting for the mutex
GetOrOpenNoLock(p) ==
    /\ pc[p] = "lock"
    /\ mu' = p
    /\ pc' = [pc EXCEPT ![p] = "lookup"]
    /\ UNCHANGED <<cache, lastAccessed, quit, now, advances, tickPending,
                   sweep, handles, call, opensOk, got>>
    /\ cev' = NoEv
    /\ UNCHANGED txvars

\* c.mu.Lock() at the head of GetOrOpen
GetOrOpenLock(p) ==
    /\ pc[p] = "lock"
    /\ Lock(p)
    /\ pc' = [pc EXCEPT ![p] = "lookup"]
    /\ UNCHANGED <<cache, lastAccessed, quit, now, advances, tickPending,
                   sweep, handles, call, opensOk, got>>
    /\ cev' = NoEv
    /\ UNCHANGED txvars

\* GetOrOpen without its lookup: it opens the name whether cached or not
GetOrOpenLookupSkipped(p) ==
    /\ pc[p] = "lookup"
    /\ call' = call
    /\ pc' = [pc EXCEPT ![p] = "open"]
    /\ UNCHANGED <<cache, lastAccessed, quit, mu, now, advances, tickPending,
                   sweep, handles, opensOk, got>>
    /\ cev' = NoEv
    /\ UNCHANGED txvars

\* if db, found := c.cache[name]; found { return db, nil }
GetOrOpenLookup(p) ==
    /\ pc[p] = "lookup"
    /\ LET n == call[p].name IN
       IF n \in DOMAIN cache
       THEN /\ call' = [call EXCEPT ![p].db = cache[n]]
            /\ pc' = [pc EXCEPT ![p] = "defer"]
       ELSE /\ call' = call
            /\ pc' = [pc EXCEPT ![p] = "open"]
    /\ UNCHANGED <<cache, lastAccessed, quit, mu, now, advances, tickPending,
                   sweep, handles, opensOk, got>>
    /\ cev' = NoEv
    /\ UNCHANGED txvars

\* db, err = OpenDB(name), and c.cache[name] = db when it succeeds
GetOrOpenOpen(p) ==
    /\ pc[p] = "open"
    /\ \E out \in {"ok", "early", "late"} :
        LET n == call[p].name
            r == OpenDB(n, out)
        IN  /\ out # "early" => Cardinality(HandleIds) < MaxHandles
            /\ handles' = r.handles
            /\ call' = [call EXCEPT ![p].db = r.db, ![p].err = r.err]
            /\ IF r.err # <<>>
               THEN UNCHANGED <<cache, opensOk>>
               ELSE /\ cache' = MapSet(cache, n, r.db)
                    /\ opensOk' = [opensOk EXCEPT ![n] = @ + 1]
    /\ pc' = [pc EXCEPT ![p] = "defer"]
    /\ UNCHANGED <<lastAccessed, quit, mu, now, advances, tickPending, sweep, got>>
    /\ cev' = NoEv
    /\ UNCHANGED txvars

\* the deferred function without its err == nil test
GetOrOpenDeferAlways(p) ==
    /\ pc[p] = "defer"
    /\ LET n == call[p].name
           ok == call[p].err = <<>>
       IN  /\ lastAccessed' = MapSet(lastAccessed, n, now)
           /\ got' = IF ok THEN [got EXCEPT ![n] = @ \cup {call[p].db}] ELSE got
    /\ Unlock(p)
    /\ pc' = [pc EXCEPT ![p] = "idle"]
    /\ call' = [call EXCEPT ![p] = NoCall]
    /\ UNCHANGED <<cache, quit, now, advances, tickPending, sweep, handles, opensOk>>
    /\ cev' = CacheEv("GetOrOpen", call[p].name, call[p].db, call[p].err, FALSE)
    /\ UNCHANGED txvars

\* the deferred function: refresh lastAccessed when err == nil, then unlock;
\* GetOrOpen returns db, err
GetOrOpenDefer(p) ==
    /\ pc[p] = "defer"
    /\ LET n == call[p].name
           ok == call[p].err = <<>>
       IN  /\ lastAccessed' = IF ok THEN MapSet(lastAccessed, n, now)
                              ELSE lastAccessed
           /\ got' = IF ok THEN [got EXCEPT ![n] = @ \cup {call[p].db}] ELSE got
    /\ Unlock(p)
    /\ pc' = [pc EXCEPT ![p] = "idle"]
    /\ call' = [call EXCEPT ![p] = NoCall]
    /\ UNCHANGED <<cache, quit, now, advances, tickPending, sweep, handles, opensOk>>
    /\ cev' = CacheEv("GetOrOpen", call[p].name, call[p].db, call[p].err, FALSE)
    /\ UNCHANGED txvars

\* Set(name, db) with a handle the caller opened itself (h is new) or one
\* that is in the cache already, when the name is absent
Set(p, n, h) ==
    /\ Idle(p)
    /\ mu = Free
    /\ n \notin DOMAIN cache
    /\ h \notin HandleIds => (h = Cardinality(HandleIds) + 1 /\ h <= MaxHandles)
    /\ h \in HandleIds => (\E m \in DOMAIN cache : cache[m] = h)
    /\ handles' = IF h \in HandleIds
                  THEN [handles EXCEPT ![h].for = @ \cup {n}]
                  ELSE MapSet(handles, h, NewHandle(n, "caller"))
    /\ cache' = MapSet(cache, n, h)
    /\ lastAccessed' = MapSet(lastAccessed, n, now)
    /\ UNCHANGED <<quit, mu, now, advances, tickPending, sweep, pc, call,
                   opensOk, got>>
    /\ cev' = CacheEv("Set", n, h, <<>>, TRUE)
    /\ UNCHANGED txvars

\* Set on a present name that refreshes the entry's timestamp
SetPresentRefreshes(p, n) ==
    /\ Idle(p)
    /\ mu = Free
    /\ n \in DOMAIN cache
    /\ lastAccessed' = MapSet(lastAccessed, n, now)
    /\ cev' = CacheEv("Set", n, NoDb, <<>>, FALSE)
    /\ UNCHANGED <<cache, quit, mu, now, advances, tickPending, sweep,
                   handles, pc, call, opensOk, got>>
    /\ UNCHANGED txvars

\* Set(name, db) when the name is present: false, nothing changes
SetPresent(p, n) ==
    /\ Idle(p)
    /\ mu = Free
    /\ n \in DOMAIN cache
    /\ cev' = CacheEv("Set", n, NoDb, <<>>, FALSE)
    /\ UNCHANGED <<cache, lastAccessed, quit, mu, now, advances, tickPending, sweep,
                   handles, pc, call, opensOk, got>>
    /\ UNCHANGED txvars

\* Close(): close(c.quit)
Close(p) ==
    /\ Idle(p)
    /\ quit = "open"
    /\ quit' = "closed"
    /\ UNCHANGED <<cache, lastAccessed, mu, now, advances, tickPending, sweep,
                   handles, pc, call, opensOk, got>>
    /\ cev' = CacheEv("Close", "a", NoDb, <<>>, FALSE)
    /\ UNCHANGED txvars

\* a Close guarded to close quit once: the second call returns nil
CloseAgainReturns(p) ==
    /\ Idle(p)
    /\ quit = "closed"
    /\ cev' = CacheEv("Close", "a", NoDb, <<>>, FALSE)
    /\ UNCHANGED <<cache, lastAccessed, quit, mu, now, advances, tickPending,
                   sweep, handles, pc, call, opensOk, got>>
    /\ UNCHANGED txvars

\* Close() on a cache whose quit channel is closed already: close(c.quit)
\* panics (close of closed channel) and Close does not return
CloseAgain(p) ==
    /\ Idle(p)
    /\ quit = "closed"
    /\ cev' = CacheEv("Close panics", "a", NoDb, <<>>, FALSE)
    /\ UNCHANGED <<cache, lastAccessed, quit, mu, now, advances, tickPending,
                   sweep, handles, pc, call, opensOk, got>>
    /\ UNCHANGED txvars

\* time passes: by a ticker period or by the idle threshold; the ticker
\* holds one tick for the sweep
Advance(d) ==
    /\ advances < MaxAdvances
    /\ now' = now + d
    /\ advances' = advances + 1
    /\ tickPending' = TRUE
    /\ UNCHANGED <<cache, lastAccessed, quit, mu, sweep, handles, pc, call,
                   opensOk, got>>
    /\ cev' = NoEv
    /\ UNCHANGED txvars

\* the names the sweep evicts at this instant
Stale == {n \in DOMAIN lastAccessed : now - lastAccessed[n] > maxInactiveDuration}

\* Cleanup, case <-ticker.C: under the lock, close and delete every stale
\* entry; db.Close() reports an error for the handles in errs, which is
\* logged and changes nothing else
CleanupTick ==
    /\ sweep = "running"
    /\ tickPending
    /\ mu = Free
    /\ LET gone == Stale
           hs == {cache[n] : n \in gone \cap DOMAIN cache}
       IN  /\ handles' = CloseAll(handles, hs \ {NoDb})
           /\ \E errs \in SUBSET (hs \ {NoDb}) :
                 cev' = CacheEv("tick", "a", NoDb,
                                IF errs = {} THEN <<>> ELSE <<"close">>, FALSE)
           /\ lastAccessed' = MapDelete(lastAccessed, gone)
           /\ cache' = MapDelete(cache, gone)
           /\ opensOk' = [n \in Names |-> IF n \in gone THEN 0 ELSE opensOk[n]]
           /\ got' = [n \in Names |-> IF n \in gone THEN {} ELSE got[n]]
    /\ tickPending' = FALSE
    /\ UNCHANGED <<quit, mu, now, advances, sweep, pc, call>>
    /\ UNCHANGED txvars

\* the quit case leaving only the select, not the loop
CleanupQuitBreaksSelect ==
    /\ sweep = "running"
    /\ quit = "closed"
    /\ sweep' = "running"
    /\ UNCHANGED <<cache, lastAccessed, quit, mu, now, advances, tickPending,
                   handles, pc, call, opensOk, got>>
    /\ cev' = NoEv
    /\ UNCHANGED txvars

\* Cleanup, case <-c.quit: return
CleanupQuit ==
    /\ sweep = "running"
    /\ quit = "closed"
    /\ sweep' = "stopped"
    /\ UNCHANGED <<cache, lastAccessed, quit, mu, now, advances, tickPending,
                   handles, pc, call, opensOk, got>>
    /\ cev' = NoEv
    /\ UNCHANGED txvars

CacheNext ==
    \/ \E p \in Callers, n \in Names : Has(p, n)
    \/ \E p \in Callers, n \in Names : Get(p, n)
    \/ \E p \in Callers, n \in Names : GetMiss(p, n)
    \/ \E p \in Callers, n \in Names : SetPresent(p, n)
    \/ \E p \in Callers, n \in Names : GetOrOpenCall(p, n)
    \/ \E p \in Callers : GetOrOpenLock(p)
    \/ \E p \in Callers : GetOrOpenLookup(p)
    \/ \E p \in Callers : GetOrOpenOpen(p)
    \/ \E p \in Callers : GetOrOpenDefer(p)
    \/ \E p \in Callers, n \in Names, h \in 1..MaxHandles : Set(p, n, h)
    \/ \E p \in Callers : Close(p)
    \/ \E p \in Callers : CloseAgain(p)
    \/ Advance(maxInactiveDuration)
    \/ CleanupTick
    \/ CleanupQuit

\* a fresh controller and an empty cache
Init == TxInit /\ CacheInit

\* one controller used by one caller, the cache untouched
Spec == Init /\ [][TxNext]_vars

\* the cache used by concurrent callers, with its sweep; the clock moves by
\* the idle threshold
CacheSpec == Init /\ [][CacheNext]_vars

\* the cache used by one caller at a time, with its sweep; the clock moves by
\* a ticker period or by the idle threshold
ShutdownNext ==
    \/ \E n \in Names : Has("p1", n)
    \/ \E n \in Names : Get("p1", n)
    \/ \E n \in Names : GetMiss("p1", n)
    \/ \E n \in Names : SetPresent("p1", n)
    \/ \E n \in Names : GetOrOpenCall("p1", n)
    \/ GetOrOpenLock("p1")
    \/ GetOrOpenLookup("p1")
    \/ GetOrOpenOpen("p1")
    \/ GetOrOpenDefer("p1")
    \/ \E n \in Names, h \in 1..MaxHandles : Set("p1", n, h)
    \/ Close("p1")
    \/ CloseAgain("p1")
    \/ \E d \in {TickerPeriod, maxInactiveDuration} : Advance(d)
    \/ CleanupTick
    \/ CleanupQuit

\* the select of Cleanup picks at random among its ready cases, so the quit
\* case, ready for ever once quit is closed, is taken eventually
ShutdownSpec == Init /\ [][ShutdownNext]_vars /\ WF_vars(CleanupQuit)

\* ------------------------------------------- a controller on a cached handle
\* NewTransactFor(n): a new controller bound to the handle dbCache.Get(n)
\* returns; when Get fails no controller is made. The controller in hand is
\* replaced while it is idle.
NewTransactFor(p, n) ==
    /\ Idle(p)
    /\ mu = Free
    /\ frames = <<>>
    /\ nested = 0
    /\ IF n \in DOMAIN cache
       THEN /\ lastAccessed' = MapSet(lastAccessed, n, now)
            /\ cev' = CacheEv("Get", n, cache[n], <<>>, FALSE)
            /\ db' = cache[n]
            /\ tx' = NoTx
            /\ stack' = <<>>
            /\ nested' = 0
            /\ hist' = HistInit
            /\ ev' = [op |-> "new", fn |-> "none", calls |-> <<>>, err |-> <<>>,
                      panicked |-> FALSE, entry |-> 0, before |-> 0,
                      pre |-> committed, h |-> HistInit, q |-> NoTx]
       ELSE /\ cev' = CacheEv("Get", n, NoDb, <<"not found">>, FALSE)
            /\ UNCHANGED <<lastAccessed, db, tx, stack, nested, hist, ev>>
    /\ UNCHANGED <<levels, committed, nextRow, frames>>
    /\ UNCHANGED <<cache, quit, mu, now, advances, tickPending, sweep,
                   handles, pc, call, opensOk, got>>

\* one caller that stores handles, builds controllers on them and runs
\* transactions while the clock moves and the sweep runs
BoundNext ==
    \/ \E n \in Names : NewTransactFor("p1", n)
    \/ \E n \in Names : Get("p1", n)
    \/ \E n \in Names, h \in 1..MaxHandles : Set("p1", n, h)
    \/ DoStart
    \/ DoCommit
    \/ DoRollback
    \/ \E d \in {TickerPeriod, maxInactiveDuration} : Advance(d)
    \/ CleanupTick

BoundSpec == Init /\ [][BoundNext]_vars

\* ------------------------------------------------------------------ claims
\* the calls of kind op that the last event made
EvCalls(op) == {i \in 1..Len(ev.calls) : ev.calls[i].op = op}

\* the last event committed the outermost transaction successfully
OuterCommitted ==
    \E i \in EvCalls("Commit") : ev.calls[i].before = 1 /\ ev.calls[i].err = <<>>

\* the last event rolled the outermost transaction back (1 -> 0)
OuterRolledBack ==
    \E i \in EvCalls("Rollback") : ev.calls[i].before = 1 /\ ev.calls[i].after = 0

\* rows the caller's bookkeeping holds live in the open levels
Live(h) == UNION Range(h.exp)

\* C1 as claimed: nested = 0 exactly when tx is nil exactly when the stack is
\* empty, and nested = Len(stack) + 1 whenever nested > 0.
C1_AsClaimed ==
    /\ (nested = 0) <=> (tx = NoTx)
    /\ (tx = NoTx) <=> (stack = <<>>)
    /\ nested > 0 => nested = Len(stack) + 1

\* C1 (amended): nested = 0 exactly when tx is nil, the stack is empty when
\* nested = 0 (it is empty at depth 1 as well), and nested = Len(stack) + 1
\* whenever nested > 0, also after calls whose engine operation failed.
C1_DepthInvariant ==
    /\ nested >= 0
    /\ (nested = 0) <=> (tx = NoTx)
    /\ nested = 0 => stack = <<>>
    /\ nested > 0 => nested = Len(stack) + 1

\* a failed call left the controller two levels deep, and a level above it
\* was closed before
C1_Witness ==
    /\ nested = 2
    /\ ev.err # <<>>
    /\ hist.closes >= 1

\* C2 as claimed: the depth is the number of successful Starts minus the
\* number of successful Commit-or-Rollback calls of the episode, so depth 0
\* is reached after exactly as many successful calls as Starts, not fewer.
C2_AsClaimed == nested = hist.starts - hist.ends

\* C2 (amended): the depth is the number of successful Starts minus the
\* number of level-ending calls, a level-ending call being a Commit or
\* Rollback that returns nil or a Rollback at depth 1 that returns the
\* engine's error; depth 0 is reached after exactly as many level-ending
\* calls as successful Starts, and not after fewer.
C2_DepthCounts == nested = hist.starts - hist.closes

\* MaxStarts successful Starts were all closed, by a mix of calls
C2_Witness ==
    /\ nested = 0
    /\ hist.starts = MaxStarts
    /\ hist.closes = MaxStarts
    /\ hist.innerRb
    /\ OuterCommitted

\* C3: when the outermost transaction is committed at depth 1 and every inner
\* level was ended by a successful Commit, every row written since the
\* outermost Start, at any level, is committed.
C3_AllWritesPersist ==
    (OuterCommitted /\ ~ev.h.innerRb) =>
        /\ committed = ev.pre \cup ev.h.allW
        /\ ev.h.allW \cap ev.pre = {}

\* an outer and an inner write, the inner level committed, then the outer
C3_Witness ==
    /\ OuterCommitted
    /\ ~ev.h.innerRb
    /\ ev.h.starts >= 2
    /\ Cardinality(ev.h.allW) >= 2
    /\ ev.h.allW \subseteq committed

\* C4: when an inner level was ended by Rollback and the outermost
\* transaction is committed later, exactly the rows written inside
\* rolled-back inner levels are missing from the committed rows; the rows of
\* the outer level and of inner levels that committed are there.
C4_OnlyInnerDiscarded ==
    (OuterCommitted /\ ev.h.innerRb) =>
        /\ committed = ev.pre \cup Live(ev.h)
        /\ (ev.h.allW \ Live(ev.h)) \cap committed = {}

\* a row was discarded with its inner level while two other rows of the
\* transaction were committed
C4_Witness ==
    /\ OuterCommitted
    /\ ev.h.innerRb
    /\ ev.h.allW \ Live(ev.h) # {}
    /\ Cardinality(Live(ev.h)) >= 2
    /\ Live(ev.h) \subseteq committed

\* C5: a Rollback of the outermost transaction (depth 1 to 0) leaves the
\* committed rows as they were at the outermost Start: no row written since,
\* at any depth, is committed, rows of committed inner levels included.
C5_OuterRollbackDiscardsAll ==
    OuterRolledBack =>
        /\ committed = ev.h.base
        /\ ev.h.allW \cap committed = {}

\* rows of the outer level and of a committed inner level were discarded,
\* and a row committed before the outermost Start is still there
C5_Witness ==
    /\ OuterRolledBack
    /\ ev.h.starts >= 2
    /\ ~ev.h.innerRb
    /\ Cardinality(ev.h.allW) >= 2
    /\ ev.h.base # {}
    /\ committed = ev.h.base

\* C6: Commit and Rollback at depth 0 return an error, issue no engine call
\* and leave the controller at depth 0 with no active transaction.
C6_NoTxActive ==
    (ev.op \in {"Commit", "Rollback"} /\ ev.before = 0) =>
        /\ ev.err # <<>>
        /\ ~ev.panicked
        /\ ev.calls[1].eng = <<>>
        /\ nested = 0
        /\ tx = NoTx
        /\ stack = <<>>
        /\ levels = <<>>
        /\ committed = ev.pre

\* Rollback was called on an idle controller that had been used before
C6_Witness ==
    /\ ev.op = "Rollback"
    /\ ev.before = 0
    /\ ev.err = <<"no tx active">>
    /\ hist.starts >= 1

\* C7: Transaction calls Commit exactly once when fn returns nil; when fn
\* returns an error or panics it calls Rollback exactly once and Commit not
\* at all, and a panic is re-raised, once, after the Rollback returned.
C7_OneCommitOrRollback ==
    (ev.op = "Transaction" /\ ev.fn # "none") =>
        /\ ev.fn = "nil" => Cardinality(EvCalls("Commit")) = 1
        /\ ev.fn \in {"err", "panic"} =>
            /\ Cardinality(EvCalls("Rollback")) = 1
            /\ EvCalls("Commit") = {}
        /\ ev.fn = "panic" =>
            /\ ev.panicked
            /\ Cardinality(EvCalls("panic")) = 1
            /\ \A i \in EvCalls("Rollback"), j \in EvCalls("panic") : i < j
        /\ ev.fn # "panic" => (~ev.panicked /\ EvCalls("panic") = {})

\* a nested Transaction whose fn panicked rolled back and re-raised
C7_Witness ==
    /\ ev.op = "Transaction"
    /\ ev.fn = "panic"
    /\ ev.entry = 1
    /\ ev.panicked
    /\ EvCalls("Rollback") = {1}
    /\ EvCalls("panic") = {2}

\* C8 as claimed: on every exit of a Transaction whose Start succeeded,
\* exactly one of the helper's Commit and Rollback calls ended the level that
\* Start opened (took the depth from entry + 1 back to entry).
C8_AsClaimed ==
    (ev.op = "Transaction" /\ ev.fn # "none") =>
        Cardinality({i \in EvCalls("Commit") \cup EvCalls("Rollback") :
                        /\ ev.calls[i].before = ev.entry + 1
                        /\ ev.calls[i].after = ev.entry}) = 1

\* C9: callers that invoke GetOrOpen concurrently for one name that is not in
\* the cache: while the name stays cached the provider OpenDB has succeeded at
\* most once for it, it is not called again once the name is cached, and
\* every caller that GetOrOpen answered without error received the one handle
\* the cache holds for the name.
C9_OneOpenSameHandle ==
    \A n \in Names :
        /\ opensOk[n] <= 1
        /\ Cardinality(got[n]) <= 1
        /\ got[n] # {} => n \in DOMAIN cache /\ got[n] = {cache[n]}
        /\ opensOk[n] = 1 => n \in DOMAIN cache
        /\ \A p \in Callers :
              (pc[p] = "open" /\ call[p].name = n)
                  => (opensOk[n] = 0 /\ n \notin DOMAIN cache)

\* a caller that invoked GetOrOpen while another was inside it for the same
\* absent name is about to return the handle the other one received, after
\* one successful OpenDB
C9_Witness ==
    \E p \in Callers :
        /\ pc[p] = "defer"
        /\ call[p].raced
        /\ call[p].err = <<>>
        /\ call[p].db \in got[call[p].name]
        /\ opensOk[call[p].name] = 1

\* C10 as claimed: each name maps to at most one live handle, and a name
\* absent from the cache has no open handle that the cache opened or held
\* for it.
C10_AsClaimed ==
    \A n \in Names :
        /\ Cardinality({h \in HandleIds : /\ handles[h].open
                                          /\ n \in DOMAIN cache
                                          /\ cache[n] = h}) <= 1
        /\ n \notin DOMAIN cache
             => ~ \E h \in HandleIds : handles[h].open /\ n \in handles[h].for

\* C11: Set(name, h) inserts h (with a fresh timestamp) and returns true
\* exactly when name is absent; when name is present it returns false and
\* leaves the handle map, the timestamp table and every handle as they were.
C11_SetOnlyWhenAbsent ==
    [][cev'.op = "Set" =>
         LET n == cev'.name IN
         /\ cev'.ok <=> n \notin DOMAIN cache
         /\ cev'.ok => /\ cache' = MapSet(cache, n, cev'.db)
                       /\ lastAccessed' = MapSet(lastAccessed, n, now)
         /\ ~cev'.ok => /\ cache' = cache
                        /\ lastAccessed' = lastAccessed
                        /\ handles' = handles]_vars

\* Set returned false for a name whose entry was last accessed earlier and
\* holds a handle another Set stored
C11_Witness ==
    /\ cev.op = "Set"
    /\ ~cev.ok
    /\ cev.name \in DOMAIN cache
    /\ cev.name \in DOMAIN lastAccessed
    /\ lastAccessed[cev.name] < now
    /\ opensOk[cev.name] = 0

\* C12 as claimed: at a sweep tick every entry whose lastAccessed is older
\* than maxInactiveDuration is closed and removed from the handle map and the
\* timestamp table, whatever db.Close() reports, and every other entry stays
\* in both and its handle is not closed.
C12_AsClaimed ==
    [][(tickPending /\ ~tickPending') =>
         \A n \in DOMAIN lastAccessed :
            IF now - lastAccessed[n] > maxInactiveDuration
            THEN /\ n \notin DOMAIN cache'
                 /\ n \notin DOMAIN lastAccessed'
                 /\ n \in DOMAIN cache => ~handles'[cache[n]].open
            ELSE /\ n \in DOMAIN lastAccessed'
                 /\ lastAccessed'[n] = lastAccessed[n]
                 /\ n \in DOMAIN cache =>
                      /\ n \in DOMAIN cache'
                      /\ cache'[n] = cache[n]
                      /\ handles'[cache[n]].open = handles[cache[n]].open]_vars

\* C13: when GetOrOpen(name) finds name absent and OpenDB fails, GetOrOpen
\* returns nil and OpenDB's error as OpenDB gave it, the handle map and the
\* timestamp table stay as they were, and the name stays absent; whether
\* GetOrOpen calls OpenDB depends only on the name being absent, so the next
\* GetOrOpen(name) calls OpenDB again.
C13_FailedOpenLeavesNoTrace ==
    [][\A p \in Callers :
         LET n == call[p].name IN
         /\ (pc[p] = "open" /\ pc'[p] = "defer" /\ call'[p].err # <<>>) =>
               /\ cache' = cache
               /\ lastAccessed' = lastAccessed
               /\ call'[p].db = NoDb
               /\ call'[p].err \in {OpenDB(n, out).err : out \in {"early", "late"}}
         /\ (pc[p] = "defer" /\ pc'[p] = "idle" /\ call[p].err # <<>>) =>
               /\ cache' = cache
               /\ lastAccessed' = lastAccessed
               /\ n \notin DOMAIN cache'
               /\ cev' = CacheEv("GetOrOpen", n, NoDb, call[p].err, FALSE)
         /\ (pc[p] = "lookup" /\ pc'[p] # "lookup" /\ n \notin DOMAIN cache) =>
               pc'[p] = "open"]_vars

\* GetOrOpen is about to call OpenDB for a name for which an earlier OpenDB
\* failed after it had opened a handle
C13_Witness ==
    \E p \in Callers :
        /\ pc[p] = "open"
        /\ call[p].name \notin DOMAIN cache
        /\ \E h \in HandleIds : handles[h].open /\ call[p].name \in handles[h].for

\* C14: after any sequence of calls Db() returns the root handle when the
\* depth is 0, and otherwise the Tx the engine created for the most recent
\* Start whose level no Commit or Rollback has ended; after the outermost
\* Commit or Rollback it returns the root handle again.
C14_DbIsInnermost ==
    /\ Len(hist.qs) = nested
    /\ Db(World) = IF nested = 0 THEN NoTx ELSE hist.qs[Len(hist.qs)]
    /\ nested > 0 => Db(World) # NoTx
    /\ (OuterCommitted \/ OuterRolledBack) => Db(World) = NoTx

\* an inner level was ended and Db() is the outermost transaction again,
\* not the root handle and not the savepoint it returned before
C14_Witness ==
    /\ nested = 1
    /\ hist.starts >= 2
    /\ hist.closes >= 1
    /\ ev.q # NoTx
    /\ ev.q # Db(World)
    /\ Db(World) = hist.qs[1]

\* C15: a Start (called directly or by Transaction) whose db.BeginTx at depth
\* 0 or tx.BeginTx at depth > 0 fails, a canceled context included, returns
\* that error and leaves nested, tx and stack, and the engine, exactly as
\* they were before the call.
C15_FailedStartChangesNothing ==
    [][((ev'.op = "Start" \/ (ev'.op = "Transaction" /\ ev'.fn = "none"))
         /\ ev'.err # <<>>) =>
           /\ nested' = nested
           /\ tx' = tx
           /\ stack' = stack
           /\ levels' = levels
           /\ committed' = committed
           /\ ev'.err = IF tx = NoTx THEN DbBeginTx(World, FALSE).err
                        ELSE TxBeginTx(World, tx, FALSE).err]_vars

\* a Start failed two levels deep, with a parent on the stack
C15_Witness ==
    /\ ev.op = "Start"
    /\ ev.err # <<>>
    /\ ev.before = 2
    /\ nested = 2
    /\ Len(stack) = 1
    /\ tx # NoTx

\* C16: Get(name) never opens a handle and never inserts or removes an entry:
\* for a present name it returns the cached handle and nil and refreshes that
\* name's timestamp; for an absent name it returns nil and the not-found
\* error and leaves the handle map and the timestamp table as they were.
C16_GetNeverOpens ==
    [][cev'.op = "Get" =>
         LET n == cev'.name IN
         /\ cache' = cache
         /\ handles' = handles
         /\ opensOk' = opensOk
         /\ n \in DOMAIN cache =>
               /\ cev'.db = cache[n]
               /\ cev'.err = <<>>
               /\ lastAccessed' = MapSet(lastAccessed, n, now)
         /\ n \notin DOMAIN cache =>
               /\ cev'.db = NoDb
               /\ cev'.err = <<"not found">>
               /\ lastAccessed' = lastAccessed]_vars

\* Get answered not-found for a name the sweep had evicted, whose handle
\* stays closed
C16_Witness ==
    /\ cev.op = "Get"
    /\ cev.err # <<>>
    /\ cev.name \notin DOMAIN cache
    /\ cev.name \notin DOMAIN lastAccessed
    /\ \E h \in HandleIds : ~handles[h].open /\ cev.name \in handles[h].for

\* C17: Has(name) returns the cached handle or nil and leaves the whole cache
\* as it was: no handle is opened, no entry is inserted or removed and no
\* timestamp is refreshed, so an entry that is stale stays stale when it is
\* probed and the next sweep tick evicts it.
C17_HasChangesNothing ==
    [][cev'.op = "Has" =>
         LET n == cev'.name IN
         /\ cev'.db = (IF n \in DOMAIN cache THEN cache[n] ELSE NoDb)
         /\ cache' = cache
         /\ lastAccessed' = lastAccessed
         /\ handles' = handles
         /\ quit' = quit
         /\ opensOk' = opensOk
         /\ Stale' = Stale]_vars

\* Has returned the handle of an entry that is idle past the threshold and
\* that the pending sweep tick will evict
C17_Witness ==
    /\ cev.op = "Has"
    /\ cev.db # NoDb
    /\ cev.name \in DOMAIN cache
    /\ cev.name \in Stale
    /\ tickPending
    /\ sweep = "running"

\* C18: once Close has closed quit the sweep loop terminates eventually, and
\* once it has terminated it stays terminated and the cache closes no handle
\* and removes no entry any more.
C18_CloseStopsSweep ==
    /\ (quit = "closed") ~> (sweep = "stopped")
    /\ [][sweep = "stopped" =>
            /\ sweep' = "stopped"
            /\ \A n \in DOMAIN cache : n \in DOMAIN cache' /\ cache'[n] = cache[n]
            /\ DOMAIN lastAccessed \subseteq DOMAIN lastAccessed'
            /\ \A h \in HandleIds : handles'[h].open = handles[h].open]_vars

\* the sweep has stopped and an entry idle past the threshold is still in
\* the cache with its handle open
C18_Witness ==
    /\ sweep = "stopped"
    /\ quit = "closed"
    /\ \E n \in Stale : n \in DOMAIN cache /\ handles[cache[n]].open

\* C19: the first Close returns nil and closes quit; a Close on a cache whose
\* quit is closed already panics instead of returning, and changes nothing.
C19_SecondClosePanics ==
    [][cev'.op \in {"Close", "Close panics"} =>
         IF quit = "open"
         THEN /\ cev' = CacheEv("Close", "a", NoDb, <<>>, FALSE)
              /\ quit' = "closed"
         ELSE /\ cev'.op = "Close panics"
              /\ quit' = "closed"
              /\ cache' = cache
              /\ sweep' = sweep]_vars

\* a second Close panicked after the first had stopped the sweep
C19_Witness ==
    /\ cev.op = "Close panics"
    /\ quit = "closed"
    /\ sweep = "stopped"

\* the handles OpenDB has opened for name n, in any cache residency
Opened(n) == {h \in HandleIds : handles[h].by = "OpenDB" /\ handles[h].name = n}

\* the callers whose GetOrOpen(n) is about to call OpenDB
Opening(n) == {p \in Callers : pc[p] = "open" /\ call[p].name = n}

\* C20 as claimed: OpenDB is attempted at most once per name, ever: the
\* handles it has opened for a name and the attempts about to be made for it
\* are never more than one.
C20_AsClaimed ==
    \A n \in Names : Cardinality(Opened(n)) + Cardinality(Opening(n)) <= 1

\* C20 (amended): OpenDB is attempted only under the cache lock and only
\* while the name is absent from the cache, so at most one attempt is in
\* progress at a time and at most one attempt succeeds between two evictions
\* of the name; after a failed attempt or an eviction by the sweep the next
\* GetOrOpen attempts the open again.
C20_OpenOnlyWhenAbsent ==
    /\ Cardinality({p \in Callers : pc[p] = "open"}) <= 1
    /\ \A n \in Names :
          /\ \A p \in Opening(n) : mu = p /\ n \notin DOMAIN cache
          /\ opensOk[n] <= 1
          /\ opensOk[n] = 1 => (n \in DOMAIN cache /\ cache[n] \in Opened(n))

\* GetOrOpen is about to open a name again whose earlier handle the sweep
\* evicted and closed
C20_Witness ==
    \E n \in Names :
        /\ Opening(n) # {}
        /\ \E h \in Opened(n) : ~handles[h].open

\* C21: a Start at depth > 0 issues tx.BeginTx on the active transaction and
\* never db.BeginTx; when it succeeds the new savepoint lies directly inside
\* that transaction and becomes the active one. db.BeginTx is issued only at
\* depth 0, where the engine holds no open transaction of the controller, so
\* the one root transaction open is the one at the bottom of the controller.
C21_NestedStartIsSavepoint ==
    /\ nested = 0 => levels = <<>>
    /\ Len(levels) <= nested
    /\ levels # <<>> => levels[1].id = (IF stack = <<>> THEN tx ELSE stack[1])
    /\ EvCalls("Start") # {} =>
        LET c == ev.calls[1] IN
        /\ ev.before = 0 => c.eng = <<[op |-> "db.BeginTx", h |-> NoTx]>>
        /\ ev.before > 0 =>
            /\ ev.q # NoTx
            /\ c.eng = <<[op |-> "tx.BeginTx", h |-> ev.q]>>
            /\ c.err = <<>> =>
                /\ nested = ev.before + 1
                /\ Len(levels) >= 2
                /\ levels[Len(levels)].id = tx
                /\ levels[Len(levels) - 1].id = ev.q
                /\ stack[Len(stack)] = ev.q
                /\ c.made = tx

\* a third level was opened as a savepoint inside the second
C21_Witness ==
    /\ ev.op = "Start"
    /\ ev.before = 2
    /\ ev.err = <<>>
    /\ nested = 3
    /\ Len(levels) = 3

\* C22: a Commit called at depth d > 1 issues one Commit on the active
\* savepoint Tx and commits no row durably; when it succeeds the rows of the
\* savepoint join the enclosing level, the root transaction stays open, the
\* active Tx is the parent popped from the stack and the depth is d - 1; when
\* it fails the error is returned and depth, active Tx, stack and engine are
\* as before.
C22_InnerCommit ==
    [][(ev'.op = "Commit" /\ nested > 1) =>
        LET c == ev'.calls[1]
            n == Len(levels)
        IN  /\ c.eng = <<[op |-> "tx.Commit", h |-> tx]>>
            /\ c.err = ev'.err
            /\ committed' = committed
            /\ ev'.err = <<>> =>
                /\ nested' = nested - 1
                /\ tx' = stack[Len(stack)]
                /\ stack' = Front(stack)
                /\ n >= 2
                /\ Len(levels') = n - 1
                /\ levels'[n - 1].id = tx'
                /\ levels'[n - 1].rows = levels[n - 1].rows \cup levels[n].rows
                /\ \A i \in 1..(n - 2) : levels'[i] = levels[i]
            /\ ev'.err # <<>> =>
                /\ nested' = nested
                /\ tx' = tx
                /\ stack' = stack
                /\ levels' = levels
    ]_vars

\* a Commit at depth 3 released a savepoint that held a row: the row is in
\* the enclosing savepoint and nothing is committed
C22_Witness ==
    /\ ev.op = "Commit"
    /\ ev.before = 3
    /\ ev.err = <<>>
    /\ nested = 2
    /\ Len(stack) = 1
    /\ Len(levels) = 2
    /\ ev.h.exp[3] # {}
    /\ ev.h.exp[3] \subseteq levels[2].rows
    /\ committed = {}

\* C23 as claimed: after a Rollback called at depth d >= 1 has returned,
\* with or without an error, the depth is d - 1 and the active Tx is the
\* parent of the level that was open (none when d = 1).
C23_AsClaimed ==
    (ev.op = "Rollback" /\ ev.before >= 1) =>
        /\ nested = ev.before - 1
        /\ tx = (IF ev.before = 1 THEN NoTx ELSE ev.h.qs[ev.before - 1])

\* the previous episode of the controller was ended by a Rollback at depth 1
\* whose engine rollback failed
EndedByFailedRollback(h) == h.exp = <<>> /\ h.closes > h.ends

\* C24: a Rollback at depth 1 whose engine rollback fails returns the
\* engine's error and leaves the controller idle (depth 0, no active Tx,
\* empty stack); a Start called next begins a new root transaction and, when
\* the engine accepts it, takes the controller to depth 1.
C24_FailedRollbackResets ==
    /\ (ev.op = "Rollback" /\ ev.before = 1 /\ ev.err # <<>>) =>
        /\ ev.calls[1].eng = <<[op |-> "tx.Rollback", h |-> ev.q]>>
        /\ ev.err \in {<<"rollback">>, <<"tx done">>}
        /\ nested = 0
        /\ tx = NoTx
        /\ stack = <<>>
        /\ EndedByFailedRollback(hist)
        /\ Start(World, TRUE).err = <<>>
        /\ Start(World, TRUE).w.nested = 1
    /\ (ev.op = "Start" /\ EndedByFailedRollback(ev.h)) =>
        /\ ev.before = 0
        /\ ev.calls[1].eng = <<[op |-> "db.BeginTx", h |-> NoTx]>>
        /\ ev.err \in {<<>>, <<"begin">>}
        /\ ev.err = <<>> => (nested = 1 /\ tx # NoTx /\ stack = <<>>)

\* after a Rollback at depth 1 that returned the engine's error, a Start
\* succeeded
C24_Witness ==
    /\ ev.op = "Start"
    /\ EndedByFailedRollback(ev.h)
    /\ ev.h.starts >= 1
    /\ ev.err = <<>>
    /\ nested = 1

\* the errors the calls of kind op of the last event returned, joined
RECURSIVE ErrsFrom(_, _)
ErrsFrom(calls, op) ==
    IF calls = <<>> THEN <<>>
    ELSE (IF Head(calls).op = op THEN Head(calls).err ELSE <<>>)
         \o ErrsFrom(Tail(calls), op)

\* C25: a Transaction that does not panic returns nil exactly when its Start
\* succeeded, fn returned nil and Commit succeeded. Otherwise it returns the
\* Start error alone, or fn's error or the Commit error, joined with the
\* Rollback error when the Rollback that follows fails as well.
C25_NoErrorLost ==
    (ev.op = "Transaction" /\ ~ev.panicked) =>
        /\ ev.fn = "none" =>
            /\ ev.err # <<>>
            /\ ev.err = ErrsFrom(ev.calls, "Start")
            /\ EvCalls("Commit") \cup EvCalls("Rollback") = {}
        /\ ev.fn # "none" =>
            /\ ev.err = (IF ev.fn = "err" THEN <<"fn">> ELSE <<>>)
                        \o ErrsFrom(ev.calls, "Commit")
                        \o ErrsFrom(ev.calls, "Rollback")
            /\ ev.err = <<>> <=>
                /\ ev.fn = "nil"
                /\ \E i \in EvCalls("Commit") : ev.calls[i].err = <<>>
            /\ ev.err # <<>> => EvCalls("Rollback") # {}

\* Commit failed and the Rollback that followed failed too: Transaction
\* returned both errors
C25_Witness ==
    /\ ev.op = "Transaction"
    /\ ev.fn = "nil"
    /\ ~ev.panicked
    /\ ev.err = <<"commit", "rollback">>
    /\ ErrsFrom(ev.calls, "Commit") = <<"commit">>
    /\ ErrsFrom(ev.calls, "Rollback") = <<"rollback">>

\* C26 as claimed: a Transaction entered at depth d whose fn ended at the
\* depth it was given (d + 1) exits, by nil, by an error or by the re-raised
\* panic, with the controller at depth d and the active Tx it had at entry;
\* a Transaction whose Start failed exits the same way.
C26_AsClaimed ==
    /\ (ev.op = "Transaction" /\ ev.fn = "none") =>
        (nested = ev.before /\ tx = ev.q)
    /\ (ev.op = "Transaction" /\ ev.fn # "none" /\ ev.before = ev.entry + 1) =>
        /\ nested = ev.entry
        /\ tx = (IF ev.entry = 0 THEN NoTx ELSE ev.h.qs[ev.entry])

\* C28: a Commit at depth 1 whose engine commit fails returns the engine's
\* error, commits no row and leaves the controller at depth 1 with the same
\* active Tx and an empty stack; a Rollback called next is not refused and
\* takes the controller to depth 0, whatever the engine answers. Transaction
\* takes that path itself when its Commit fails at depth 1.
C28_FailedRootCommit ==
    /\ (ev.op = "Commit" /\ ev.before = 1 /\ ev.err # <<>>) =>
        /\ ev.calls[1].eng = <<[op |-> "tx.Commit", h |-> ev.q]>>
        /\ ev.err \in {<<"commit">>, <<"tx done">>}
        /\ committed = ev.pre
        /\ nested = 1
        /\ tx = ev.q
        /\ tx # NoTx
        /\ stack = <<>>
        /\ \A ok \in BOOLEAN :
            LET r == Rollback(World, ok) IN
            /\ r.err # <<"no tx active">>
            /\ r.eng = <<[op |-> "tx.Rollback", h |-> tx]>>
            /\ r.w.nested = 0
            /\ r.w.tx = NoTx
            /\ r.w.stack = <<>>
            /\ r.w.levels = <<>>
            /\ r.w.committed = committed
    /\ (ev.op = "Transaction" /\ ev.fn = "nil" /\ ev.before = 1
            /\ ErrsFrom(ev.calls, "Commit") # <<>>) =>
        /\ Len(ev.calls) = 2
        /\ ev.calls[1].op = "Commit"
        /\ ev.calls[1].after = 1
        /\ ev.calls[2].op = "Rollback"
        /\ ev.calls[2].before = 1
        /\ ev.calls[2].after = 0
        /\ nested = 0
        /\ tx = NoTx
        /\ committed = ev.pre

\* the commit of a transaction that had written a row failed and left the
\* engine transaction open
C28_Witness ==
    /\ ev.op = "Commit"
    /\ ev.before = 1
    /\ ev.err = <<"commit">>
    /\ ev.h.allW # {}
    /\ nested = 1
    /\ Len(levels) = 1
    /\ levels[1].id = tx

\* C29 as claimed: whenever no goroutine is inside a locked section of the
\* cache, the handle map and the timestamp table hold the same names; no
\* handle stored in the handle map has been closed by the sweep; and the
\* handle Has, Get or GetOrOpen returns has not been closed by the sweep.
C29_AsClaimed ==
    /\ mu = Free => DOMAIN cache = DOMAIN lastAccessed
    /\ \A n \in DOMAIN cache : cache[n] # NoDb => handles[cache[n]].open
    /\ (cev.op \in {"Has", "Get", "GetOrOpen"} /\ cev.db # NoDb) =>
          handles[cev.db].open

\* C27 as claimed: the sweep never closes a handle while the controller
\* that NewTransactFor bound to it is inside a transaction (depth > 0).
C27_AsClaimed ==
    [][\A h \in HandleIds :
          (handles[h].open /\ ~handles'[h].open) => ~(db = h /\ nested > 0)]_vars

====
